---- MODULE Spec2Model ----
(***************************************************************************)
(* A model of scoped-trace (src/src/lib.rs): the thread-local Context      *)
(* (active_frame, trace), Trace::capture, Trace::root, Trace::leaf and the *)
(* defer guard, run by one thread whose call stack is modelled explicitly. *)
(*                                                                         *)
(* The call stack `stack` is a sequence of frames, the thread's entry      *)
(* first and the innermost call last.  User code (the entry, plain         *)
(* functions, closures handed to root/capture, catch_unwind bodies) may    *)
(* call a function, root, capture, leaf or catch_unwind, return, or panic. *)
(* A panic unwinds frame by frame, running each frame's drop guards, until *)
(* a catch_unwind frame or the thread's entry is reached.                  *)
(***************************************************************************)
EXTENDS Naturals, Sequences, FiniteSets

VARIABLES
    stack,          \* the call stack, outermost first
    active_frame,   \* Context.active_frame: 0 (None) or the id of a root Frame
    trace,          \* Context.trace: <<>> (None) or <<collector>> (Some)
    mode,           \* "run", "unwind", "walk" (leaf's stack walk), "finish"
    collector,      \* leaf's local `collector` (taken out of Context.trace)
    frames,         \* leaf's local `frames`
    above_leaf,     \* leaf's local `above_leaf`
    boundary,       \* active_frame.as_ref().inner_addr as read by leaf
    walkIdx,        \* the Stack Walker's position in the native stack
    nextId,         \* history: number of root/capture invocations so far
    nLeaf,          \* history: number of leaf() calls so far
    calls,          \* history: number of calls user code has made so far
    own,            \* history: per capture invocation, the RawCaptures of the
                    \* leaf() calls made in its own extent
    returned,       \* history: the (capture id, Trace) of the last capture return
    lastExit,       \* history: the last root/capture exit and how it happened
    resolves,       \* whether the walker's symbol_address() of a root frame
                    \* equals the function pointer root::<F, R> in this build
    made,           \* history: per collector, the leaf() calls made on it
    budget,         \* the most calls user code makes in this run
    captureUnwound, \* history: some capture call has been exited by unwinding
    input,          \* the Trace being displayed (its backtraces)
    tree,           \* the tree Tree::from_trace is building from `input`
    fed             \* how many backtraces of `input` are merged into `tree`

vars == <<stack, active_frame, trace, mode, collector, frames, above_leaf,
          boundary, walkIdx, nextId, nLeaf, calls, own, returned, lastExit,
          resolves, made, budget, captureUnwound, input, tree, fed>>

(* ------------------------------ bounds -------------------------------- *)

\* Most calls user code makes in one run (functions, catch_unwind, root,
\* capture and leaf together).
MaxCalls == 4
\* Call sites distinguished inside one function body.
MaxSite == 2

(* ----------------------------- addresses ------------------------------ *)

\* The closure types handed to root/capture; root::<F, R> is monomorphised
\* per closure type, so each has its own root address.  The two types are
\* interchangeable, so the first scope of a run is taken to be opened with f.
Closures == {"f", "g"}
ClosuresAt(n) == IF n = 0 THEN {"f"} ELSE Closures

\* Plain user functions.
Fns == {"foo"}

\* Self::root::<F, R> as *const c_void
RootAddr(cl) == IF cl = "f" THEN "root<f>" ELSE "root<g>"

\* Self::leaf as *const _
LeafAddr == "leaf"

\* The symbol address the walker reports for a frame whose function pointer
\* it cannot match (symbol_address() falls back to another address).
UnresolvedAddr == "?"

(* ------------------------------- frames ------------------------------- *)

\* Address of the thread's entry function, of catch_unwind and of capture.
MainAddr == "main"
CatchAddr == "catch_unwind"
CaptureAddr == "capture"

\* One call-stack frame.  sym is the symbol address the Stack Walker reports
\* for it and site the call site it is currently suspended at; for a root
\* frame, inner_addr and parent are the fields of its local `frame: Frame`;
\* for a capture frame, previous is its local `previous`.  preFrame and
\* preTrace are history: Context as it was when the call was made.
MkFrame(kind, sym, site, id, inner_addr, parent, previous, preFrame, preTrace) ==
    [kind |-> kind, sym |-> sym, site |-> site, id |-> id,
     inner_addr |-> inner_addr, parent |-> parent, previous |-> previous,
     preFrame |-> preFrame, preTrace |-> preTrace]

UserFrame(kind, sym) == MkFrame(kind, sym, 0, 0, "", 0, <<>>, 0, <<>>)

Top(stk) == stk[Len(stk)]
Pop(stk) == SubSeq(stk, 1, Len(stk) - 1)

\* The caller moves to its next call site before the call is made: call
\* sites are met in program order, and the last one stands for a loop.
NextSite(site) == IF site < MaxSite THEN site + 1 ELSE MaxSite
Call(stk) == [stk EXCEPT ![Len(stk)].site = NextSite(@)]


\* Trace { backtraces: vec![] }; cid is history (which capture created it).
NewCollector(id) == [cid |-> id, backtraces |-> <<>>]
NoCollector == [cid |-> 0, backtraces |-> <<>>]

NoExit == [kind |-> "none", how |-> "none"]

\* User code runs in the thread's entry, in plain functions and closures and
\* in catch_unwind bodies.
UserKinds == {"base", "fn", "plain", "catch"}
UserTop == mode = "run" /\ Top(stack).kind \in UserKinds

\* The capture invocations in progress, and the innermost of them (0: none).
CaptureDepths(stk) == {i \in 1..Len(stk) : stk[i].kind = "capture"}
InnermostCapture(stk) ==
    IF CaptureDepths(stk) = {} THEN 0
    ELSE stk[CHOOSE i \in CaptureDepths(stk) : \A j \in CaptureDepths(stk) : j <= i].id

(* ------------------------------- Init --------------------------------- *)

Init ==
    /\ stack = <<UserFrame("base", MainAddr)>>
    /\ active_frame = 0
    /\ trace = <<>>
    /\ mode = "run"
    /\ collector = NoCollector
    /\ frames = <<>>
    /\ above_leaf = FALSE
    /\ boundary = ""
    /\ walkIdx = 0
    /\ nextId = 0
    /\ nLeaf = 0
    /\ calls = 0
    /\ own = [c \in 1..MaxCalls |-> <<>>]
    /\ returned = <<>>
    /\ lastExit = NoExit
    /\ resolves \in BOOLEAN
    /\ made = [c \in 1..MaxCalls |-> 0]
    /\ budget = MaxCalls
    /\ captureUnwound = FALSE
    /\ input = <<>>
    /\ tree = <<>>
    /\ fed = 0

leafLocals == <<collector, frames, above_leaf, boundary, walkIdx>>
treeVars == <<input, tree, fed>>

(* ------------------------- plain user actions -------------------------- *)

\* User code calls a plain function.
CallFn(fn) ==
    /\ UserTop
    /\ calls < budget
    /\ calls' = calls + 1
    /\ stack' = Append(Call(stack), UserFrame("plain", fn))
    /\ UNCHANGED <<active_frame, trace, mode, leafLocals, nextId, nLeaf, own,
                   returned, lastExit, resolves, budget, captureUnwound, made,
                   treeVars>>

\* User code calls std::panic::catch_unwind(|| ...).
CallCatch ==
    /\ UserTop
    /\ calls < budget
    /\ calls' = calls + 1
    /\ stack' = Append(Call(stack), UserFrame("catch", CatchAddr))
    /\ UNCHANGED <<active_frame, trace, mode, leafLocals, nextId, nLeaf, own,
                   returned, lastExit, resolves, budget, captureUnwound, made,
                   treeVars>>

\* A user function, closure or catch_unwind body returns normally.
Return ==
    /\ UserTop
    /\ Len(stack) > 1
    /\ stack' = Pop(stack)
    /\ UNCHANGED <<active_frame, trace, mode, leafLocals, nextId, nLeaf, calls,
                   own, returned, lastExit, resolves, budget, captureUnwound,
                   made, treeVars>>

\* User code panics; unwinding starts at the innermost frame.
Panic ==
    /\ UserTop
    /\ Len(stack) > 1
    /\ mode' = "unwind"
    /\ UNCHANGED <<stack, active_frame, trace, leafLocals, nextId, nLeaf, calls,
                   own, returned, lastExit, resolves, budget, captureUnwound,
                   made, treeVars>>

(* --------------------------- root and capture -------------------------- *)

\* RootFrame with `parent` left None instead of taking the current frame.
RootFrameNoParent(cl, resolved, id, current) ==
    MkFrame("root", IF resolved THEN RootAddr(cl) ELSE UnresolvedAddr, 1, id,
            RootAddr(cl), 0, <<>>, current, <<>>)

\* root, lines 151-159: the local Frame { inner_addr: root::<F, R>, parent }
\* with parent = current.take().  The walker reports the frame's symbol
\* address as root::<F, R> when `resolved`, as another address otherwise.
RootFrame(cl, resolved, id, current) ==
    MkFrame("root", IF resolved THEN RootAddr(cl) ELSE UnresolvedAddr, 1, id,
            RootAddr(cl), current, <<>>, current, <<>>)

\* capture, lines 127-133: the frame of capture with its local `previous`.
CaptureFrame(id, current) ==
    MkFrame("capture", CaptureAddr, 1, id, "", 0, current, 0, current)

\* Defer with the restoration run only after f() returns, not by a guard.
DeferOnReturnOnly(fr, current, how) ==
    IF how = "return" THEN fr.parent ELSE current

\* Defer with the active frame cleared instead of set back to the parent.
DeferToNone(fr, current, how) == 0

\* The guard of lines 161-165, run when `_restore` is dropped: on return
\* from f() (how = "return") and while unwinding out of f() (how = "unwind").
Defer(fr, current, how) == fr.parent

\* CaptureRestore left out: the collector capture installed stays installed.
CaptureRestoreNever(fr, current, how) == current

\* CaptureRestore that leaves no collector installed instead of `previous`.
CaptureRestoreNone(fr, current, how) == <<>>

\* capture, lines 137-140: current.replace(previous) on the normal path.
\* Nothing of capture runs when root(f) unwinds through it.
CaptureRestore(fr, current, how) ==
    IF how = "return" THEN fr.previous ELSE current

\* User code calls Trace::root(f), f a closure of type cl: root pushes its
\* Frame, installs the guard and calls f().
CallRoot(cl) ==
    /\ UserTop
    /\ calls < budget
    /\ calls' = calls + 1
    /\ nextId' = nextId + 1
    /\ stack' = Call(stack)
                \o <<RootFrame(cl, resolves, nextId + 1, active_frame),
                     UserFrame("fn", cl)>>
    /\ active_frame' = nextId + 1
    /\ UNCHANGED <<trace, mode, leafLocals, nLeaf, own, returned, lastExit,
                   resolves, budget, captureUnwound, made, treeVars>>

\* User code calls Trace::capture(f): capture installs a fresh collector,
\* keeps the previous one in `previous`, and calls Trace::root(f).
CallCapture(cl) ==
    /\ UserTop
    /\ calls < budget
    /\ calls' = calls + 1
    /\ nextId' = nextId + 1
    /\ stack' = Call(stack)
                \o <<CaptureFrame(nextId + 1, trace),
                     RootFrame(cl, resolves, nextId + 1, active_frame),
                     UserFrame("fn", cl)>>
    /\ trace' = <<NewCollector(nextId + 1)>>
    /\ active_frame' = nextId + 1
    /\ UNCHANGED <<mode, leafLocals, nLeaf, own, returned, lastExit, resolves,
                   budget, captureUnwound, made, treeVars>>

\* f() has returned into root: `_restore` is dropped and root returns.
RootExit ==
    /\ mode = "run"
    /\ Top(stack).kind = "root"
    /\ active_frame' = Defer(Top(stack), active_frame, "return")
    /\ stack' = Pop(stack)
    /\ lastExit' = [kind |-> "root", how |-> "return"]
    /\ UNCHANGED <<trace, mode, leafLocals, nextId, nLeaf, calls, own, returned,
                   resolves, budget, captureUnwound, made, treeVars>>

\* root(f) has returned into capture: lines 137-142.  The unwrap panics when
\* no collector is installed.
CaptureExit ==
    /\ mode = "run"
    /\ Top(stack).kind = "capture"
    /\ trace' = CaptureRestore(Top(stack), trace, "return")
    /\ IF trace = <<>>
       THEN /\ mode' = "unwind"
            /\ UNCHANGED <<stack, returned, lastExit>>
       ELSE /\ stack' = Pop(stack)
            /\ returned' = <<[cap |-> Top(stack).id, set |-> trace[1].backtraces]>>
            /\ lastExit' = [kind |-> "capture", how |-> "return"]
            /\ UNCHANGED mode
    /\ UNCHANGED <<active_frame, leafLocals, nextId, nLeaf, calls, own,
                   resolves, budget, captureUnwound, made, treeVars>>

\* One frame is unwound: its drop guards run and it is popped.  Unwinding
\* stops in the caller of a catch_unwind frame, or in the thread's entry,
\* which runs every call it makes under catch_unwind.
UnwindStep ==
    /\ mode = "unwind"
    /\ LET fr == Top(stack) IN
       /\ stack' = Pop(stack)
       /\ active_frame' = IF fr.kind = "root"
                          THEN Defer(fr, active_frame, "unwind")
                          ELSE active_frame
       /\ trace' = IF fr.kind = "capture"
                   THEN CaptureRestore(fr, trace, "unwind")
                   ELSE trace
       /\ mode' = IF fr.kind = "catch" \/ Len(stack) = 2 THEN "run" ELSE "unwind"
       /\ lastExit' = IF fr.kind \in {"root", "capture"}
                      THEN [kind |-> fr.kind, how |-> "unwind"]
                      ELSE lastExit
       /\ captureUnwound' = (captureUnwound \/ fr.kind = "capture")
    /\ UNCHANGED <<leafLocals, nextId, nLeaf, calls, own, returned, resolves,
                   budget, made, treeVars>>

(* -------------------------------- leaf -------------------------------- *)

\* Frames of the capture machinery that lie inside leaf's own frame while
\* backtrace::trace runs (the walker itself and the closure leaf hands to
\* Context::with_current).
Machinery ==
    <<[sym |-> "backtrace::trace", site |-> 1],
      [sym |-> "leaf::{{closure}}", site |-> 1]>>

Reverse(q) == [i \in 1..Len(q) |-> q[Len(q) + 1 - i]]

\* NativeStack with every frame reported at its function's address only,
\* whatever call site it is suspended at.
NativeStackNoSite(stk) ==
    Machinery \o [i \in 1..Len(stk) |->
                    [sym |-> stk[Len(stk) + 1 - i].sym, site |-> 1]]

\* The native stack as the Stack Walker enumerates it: innermost frame
\* first, each frame with its symbol address and its current call site.
NativeStack(stk) ==
    Machinery \o [i \in 1..Len(stk) |->
                    [sym |-> stk[Len(stk) + 1 - i].sym,
                     site |-> stk[Len(stk) + 1 - i].site]]

\* What active_frame.as_ref().inner_addr reads (line 189, 193).  A pointer
\* to a Frame whose root invocation is gone is dangling: any address.
InnerAddrOf(stk, ptr) ==
    LET live == {i \in 1..Len(stk) : stk[i].kind = "root" /\ stk[i].id = ptr}
    IN IF live # {} THEN {stk[i].inner_addr : i \in live}
       ELSE {RootAddr(cl) : cl \in Closures} \cup {UnresolvedAddr}

\* line 193: let below_root = !ptr::eq(frame.symbol_address(), active_frame.inner_addr)
BelowRoot(fr, bnd) == fr.sym # bnd

\* CallbackFrames without the above_leaf test: the machinery is kept too.
CallbackFramesNoSkip(acc, above, fr, bnd) ==
    IF BelowRoot(fr, bnd) THEN Append(acc, fr) ELSE acc

\* CallbackFrames without the below_root test: the boundary frame is kept.
CallbackFramesInclusive(acc, above, fr, bnd) ==
    IF above THEN Append(acc, fr) ELSE acc

\* lines 197-199: the frame is kept when above leaf and below the root.
CallbackFrames(acc, above, fr, bnd) ==
    IF above /\ BelowRoot(fr, bnd) THEN Append(acc, fr) ELSE acc

\* lines 201-203: frames after leaf's own frame are above leaf.
CallbackAbove(above, fr) == IF fr.sym = LeafAddr THEN TRUE ELSE above

\* line 206: the callback's result, whether the walker goes on.
CallbackContinue(fr, bnd) == BelowRoot(fr, bnd)

\* Push with the new capture put first instead of last.
PushFront(c, fr) == [c EXCEPT !.backtraces = <<fr>> \o @]

\* Push left out: the collector is reinstalled as it was taken.
PushNothing(c, fr) == c

\* line 209: collector.backtraces.push(frames)
Push(c, fr) == [c EXCEPT !.backtraces = Append(@, fr)]

\* HasCollector with the test left out: leaf walks whatever is installed.
HasCollectorAlways(t) == TRUE

\* Take that hands leaf an empty collector of its own, not the installed one.
TakeOther(t) == NoCollector

\* line 184: `if let Some(mut collector) = context_cell.trace.take()`
HasCollector(t) == t # <<>>
Take(t) == IF t = <<>> THEN NoCollector ELSE t[1]

\* Reinstall forgotten: the collector taken at line 184 is not put back.
ReinstallNothing(c) == <<>>

\* line 210: context_cell.trace.set(Some(collector))
Reinstall(c) == <<c>>

\* The frame of leaf; preFrame and preTrace record the Context at the call.
LeafFrame(af, t) == MkFrame("leaf", LeafAddr, 1, 0, "", 0, <<>>, af, t)

\* User code calls Trace::leaf().  Line 184 takes the collector out of the
\* Context; with none installed leaf returns at once.  Otherwise, with an
\* active frame, the stack walk starts (line 191).
CallLeaf ==
    /\ UserTop
    /\ calls < budget
    /\ calls' = calls + 1
    /\ nLeaf' = nLeaf + 1
    /\ IF ~HasCollector(trace)
       THEN /\ stack' = Call(stack)
            /\ UNCHANGED <<trace, mode, leafLocals, made>>
       ELSE /\ stack' = Append(Call(stack), LeafFrame(active_frame, trace))
            /\ collector' = Take(trace)
            /\ trace' = <<>>
            /\ frames' = <<>>
            /\ above_leaf' = FALSE
            /\ made' = IF Take(trace).cid = 0 THEN made
                       ELSE [made EXCEPT ![Take(trace).cid] = @ + 1]
            /\ IF active_frame # 0
               THEN /\ mode' = "walk"
                    /\ walkIdx' = 1
                    /\ \E b \in InnerAddrOf(stack, active_frame) : boundary' = b
               ELSE /\ mode' = "finish"
                    /\ UNCHANGED <<walkIdx, boundary>>
    /\ UNCHANGED <<active_frame, nextId, own, returned, lastExit, resolves,
                   budget, captureUnwound, treeVars>>

\* The Stack Walker calls leaf's callback on the next native frame, and
\* stops when the callback returns false or the stack is exhausted.
WalkStep ==
    /\ mode = "walk"
    /\ LET native == NativeStack(stack)
           fr == native[walkIdx]
       IN /\ frames' = CallbackFrames(frames, above_leaf, fr, boundary)
          /\ above_leaf' = CallbackAbove(above_leaf, fr)
          /\ IF CallbackContinue(fr, boundary) /\ walkIdx < Len(native)
             THEN walkIdx' = walkIdx + 1 /\ mode' = "walk"
             ELSE walkIdx' = walkIdx /\ mode' = "finish"
    /\ UNCHANGED <<stack, active_frame, trace, collector, boundary, nextId,
                   nLeaf, calls, own, returned, lastExit, resolves, budget,
                   captureUnwound, made, treeVars>>

\* lines 209-210: the capture is pushed, the collector reinstalled, and
\* leaf returns.
LeafFinish ==
    /\ mode = "finish"
    /\ trace' = Reinstall(Push(collector, frames))
    /\ stack' = Pop(stack)
    /\ mode' = "run"
    /\ own' = IF InnermostCapture(stack) = 0 THEN own
              ELSE [own EXCEPT ![InnermostCapture(stack)] = Append(@, frames)]
    /\ collector' = NoCollector
    /\ frames' = <<>>
    /\ above_leaf' = FALSE
    /\ boundary' = ""
    /\ walkIdx' = 0
    /\ UNCHANGED <<active_frame, nextId, nLeaf, calls, returned, lastExit,
                   resolves, budget, captureUnwound, made, treeVars>>

(* ------------------------------- Next --------------------------------- *)

Next ==
    \/ \E fn \in Fns : CallFn(fn)
    \/ CallCatch
    \/ \E cl \in ClosuresAt(nextId) : CallRoot(cl)
    \/ \E cl \in ClosuresAt(nextId) : CallCapture(cl)
    \/ CallLeaf
    \/ Return
    \/ Panic
    \/ RootExit
    \/ CaptureExit
    \/ UnwindStep
    \/ WalkStep
    \/ LeafFinish

Spec == Init /\ [][Next]_vars

(* ---------------------------- Tree Builder ---------------------------- *)

\* Longest RawCapture and most RawCaptures in a displayed Trace.
MaxCapLen == 2
MaxCaps == 3

\* The frame addresses the displayed RawCaptures are made of.
TreeAddrs == {[sym |-> "f", site |-> 1], [sym |-> "foo", site |-> 1]}

RawCaptures == UNION {[1..n -> TreeAddrs] : n \in 0..MaxCapLen}
CaptureSets == UNION {[1..m -> RawCaptures] : m \in 0..MaxCaps}

\* A tree is the sequence of its nodes in creation order; a node holds its
\* address and its parent (0: a top-level entry).  The children of a node
\* are ordered as they were created.
Node(a, par) == [addr |-> a, parent |-> par]

\* FindChild by address alone, whatever the node's parent.
FindChildAnywhere(t, cur, a) == {n \in 1..Len(t) : t[n].addr = a}

\* FindChild that never finds an existing child.
FindChildNone(t, cur, a) == {}

\* The existing children of `cur` whose address equals `a`.
FindChild(t, cur, a) == {n \in 1..Len(t) : t[n].parent = cur /\ t[n].addr = a}

\* Descend with a new child created before its siblings instead of after
\* them: the new node is put first and every older node moves up by one.
RECURSIVE DescendPrepend(_, _, _, _)
DescendPrepend(t, cur, path, k) ==
    IF k > Len(path) THEN t
    ELSE LET hits == FindChild(t, cur, path[k])
             up(n) == IF n = 0 THEN 0 ELSE n + 1
         IN IF hits # {}
            THEN DescendPrepend(t, CHOOSE n \in hits : \A m \in hits : n <= m, path, k + 1)
            ELSE DescendPrepend(<<Node(path[k], up(cur))>>
                                  \o [i \in 1..Len(t) |-> Node(t[i].addr, up(t[i].parent))],
                                1, path, k + 1)

\* Walk the tree from `cur` along path[k..]: descend into the child with the
\* next address when there is one, else create it after its siblings.
RECURSIVE Descend(_, _, _, _)
Descend(t, cur, path, k) ==
    IF k > Len(path) THEN t
    ELSE LET hits == FindChild(t, cur, path[k])
         IN IF hits # {}
            THEN Descend(t, CHOOSE n \in hits : \A m \in hits : n <= m, path, k + 1)
            ELSE Descend(Append(t, Node(path[k], cur)), Len(t) + 1, path, k + 1)

\* One RawCapture is merged: reversed to root-to-leaf order, then walked in.
Merge(t, rc) == Descend(t, 0, Reverse(rc), 1)

\* Displaying a Trace: Tree::from_trace merges its backtraces one by one.
TreeInit ==
    /\ stack = <<UserFrame("base", MainAddr)>>
    /\ active_frame = 0
    /\ trace = <<>>
    /\ mode = "run"
    /\ collector = NoCollector
    /\ frames = <<>>
    /\ above_leaf = FALSE
    /\ boundary = ""
    /\ walkIdx = 0
    /\ nextId = 0
    /\ nLeaf = 0
    /\ calls = 0
    /\ own = [c \in 1..MaxCalls |-> <<>>]
    /\ returned = <<>>
    /\ lastExit = NoExit
    /\ resolves = TRUE
    /\ made = [c \in 1..MaxCalls |-> 0]
    /\ budget = MaxCalls
    /\ captureUnwound = FALSE
    /\ input \in CaptureSets
    /\ tree = <<>>
    /\ fed = 0

TreeInsert ==
    /\ fed < Len(input)
    /\ tree' = Merge(tree, input[fed + 1])
    /\ fed' = fed + 1
    /\ UNCHANGED <<stack, active_frame, trace, mode, leafLocals, nextId, nLeaf,
                   calls, own, returned, lastExit, resolves, budget,
                   captureUnwound, made, input>>

TreeNext == TreeInsert

TreeSpec == TreeInit /\ [][TreeNext]_vars

(* ------------------- the foo / bar / baz program ---------------------- *)

\* The program of tests/inlining.rs and of the crate's doc example: the
\* entry calls Trace::capture(|| foo()), foo calls bar() and baz(), each of
\* which calls Trace::leaf(), and the entry then prints the Trace.  foo's
\* body is left open: it calls bar or baz at each of its call sites, and any
\* function may return before its next call.
Callees == {"bar", "baz"}

\* Calls made at most: capture, foo, and a callee and its leaf per call site.
ScenarioCalls == 2 + 2 * MaxSite

ScenarioInit ==
    /\ stack = <<UserFrame("base", MainAddr)>>
    /\ active_frame = 0
    /\ trace = <<>>
    /\ mode = "run"
    /\ collector = NoCollector
    /\ frames = <<>>
    /\ above_leaf = FALSE
    /\ boundary = ""
    /\ walkIdx = 0
    /\ nextId = 0
    /\ nLeaf = 0
    /\ calls = 0
    /\ own = [c \in 1..MaxCalls |-> <<>>]
    /\ returned = <<>>
    /\ lastExit = NoExit
    /\ resolves \in BOOLEAN
    /\ made = [c \in 1..MaxCalls |-> 0]
    /\ budget = ScenarioCalls
    /\ captureUnwound = FALSE
    /\ input = <<>>
    /\ tree = <<>>
    /\ fed = 0

\* let (_, trace) = Trace::capture(|| foo());
MainCallsCapture ==
    /\ Top(stack).kind = "base"
    /\ nextId = 0
    /\ CallCapture("f")

\* || foo()
ClosureCallsFoo ==
    /\ Top(stack).kind = "fn"
    /\ Top(stack).site = 0
    /\ CallFn("foo")

\* fn foo() { bar(); baz(); }
FooCalls(fn) ==
    /\ Top(stack).sym = "foo"
    /\ Top(stack).site < MaxSite
    /\ CallFn(fn)

\* fn bar() { Trace::leaf(); }    fn baz() { Trace::leaf(); }
CalleeCallsLeaf ==
    /\ Top(stack).sym \in Callees
    /\ Top(stack).site = 0
    /\ CallLeaf

\* println!("{trace}"): the Trace capture returned is handed to Display.
PrintTrace ==
    /\ mode = "run"
    /\ Len(stack) = 1
    /\ returned # <<>>
    /\ returned[1].set # <<>>
    /\ input = <<>>
    /\ input' = returned[1].set
    /\ UNCHANGED <<stack, active_frame, trace, mode, leafLocals, nextId, nLeaf,
                   calls, own, returned, lastExit, resolves, budget,
                   captureUnwound, made, tree, fed>>

ScenarioNext ==
    \/ MainCallsCapture
    \/ ClosureCallsFoo
    \/ \E fn \in Callees : FooCalls(fn)
    \/ CalleeCallsLeaf
    \/ Return
    \/ RootExit
    \/ CaptureExit
    \/ WalkStep
    \/ LeafFinish
    \/ PrintTrace
    \/ TreeInsert

ScenarioSpec == ScenarioInit /\ [][ScenarioNext]_vars

(* ------------------------------ claims -------------------------------- *)

\* The root invocations in progress.
RootDepths(stk) == {i \in 1..Len(stk) : stk[i].kind = "root"}

\* This step pops the innermost frame, a frame of the given kind: the call
\* ends, by return or by unwinding.
Exits(kind) == Top(stack).kind = kind /\ stack' = Pop(stack)

\* C1: every exit of root(f), by return or by unwinding, leaves the active
\* ActivationFrame as it was when root was called; once no root is in
\* progress none is active, and a root called then gets parent = none.
C1_RootRestoresFrame ==
    [][/\ Exits("root") => active_frame' = Top(stack).preFrame
       /\ RootDepths(stack') = {} => active_frame' = 0
       /\ (RootDepths(stack) = {} /\ RootDepths(stack') # {})
            => \A i \in RootDepths(stack') : stack'[i].parent = 0]_vars

\* C1 witness: a top-level root has unwound, and a root called after it is
\* running f with parent = none.
C1_Witness ==
    /\ lastExit = [kind |-> "root", how |-> "unwind"]
    /\ mode = "run"
    /\ Len(stack) = 3
    /\ stack[2].kind = "root"
    /\ stack[2].parent = 0
    /\ active_frame = stack[2].id

\* C2 (as claimed): every exit of capture(f), by return or by unwinding,
\* leaves the active accumulator as it was when capture was called.
C2_CaptureRestoresAccumulator ==
    [][Exits("capture") => trace' = Top(stack).preTrace]_vars

\* C3 (as claimed): the CaptureSet a capture call returns holds exactly the
\* RawCaptures of the leaf() calls made in its own extent, outside any
\* capture nested in it.
C3_CaptureSetIsOwnLeaves ==
    returned # <<>> => returned[1].set = own[returned[1].cap]

\* The innermost frame is leaf's and this step returns from it.
LeafReturns == Exits("leaf")

\* C4: a leaf() call made with an accumulator active appends exactly one
\* RawCapture at its end and leaves the earlier entries as they were, so the
\* accumulator holds as many entries as leaf() calls were made on it.
C4_LeafAppendsOne ==
    [][LeafReturns =>
         LET before == Top(stack).preTrace[1].backtraces
             after == trace'[1].backtraces
         IN /\ Len(trace') = 1
            /\ trace'[1].cid = Top(stack).preTrace[1].cid
            /\ Len(after) = Len(before) + 1
            /\ SubSeq(after, 1, Len(before)) = before
            /\ Len(after) = made'[trace'[1].cid]]_vars

\* C4 witness: two leaf() calls were made on one accumulator, which holds
\* their two different RawCaptures in call order.
C4_Witness ==
    /\ mode = "run"
    /\ trace # <<>>
    /\ Len(trace[1].backtraces) = 2
    /\ made[trace[1].cid] = 2
    /\ trace[1].backtraces[1] # trace[1].backtraces[2]
    /\ trace[1].backtraces = own[trace[1].cid]

\* The frame of the active root invocation is on the stack and the walker
\* reports it under its boundary address.
BoundaryDepths ==
    {i \in 1..Len(stack) - 1 : stack[i].kind = "root" /\ stack[i].id = active_frame
                               /\ stack[i].sym = stack[i].inner_addr}

\* The frames strictly between leaf's frame (the innermost) and frame b,
\* innermost first, as the walker reports them.
Between(b) ==
    [k \in 1..(Len(stack) - 1 - b) |->
        [sym |-> stack[Len(stack) - k].sym, site |-> stack[Len(stack) - k].site]]

\* C5: when leaf's walk is over and the boundary frame was on the stack, the
\* RawCapture is exactly the frames strictly between leaf's frame and the
\* boundary frame, leaf to root.
C5_CaptureIsBetweenLeafAndRoot ==
    (mode = "finish" /\ active_frame # 0 /\ BoundaryDepths # {})
        => \A b \in BoundaryDepths : frames = Between(b)

\* C5 witness: a walk ended at the boundary with a plain function and the
\* closure between leaf and the root.
C5_Witness ==
    /\ mode = "finish"
    /\ BoundaryDepths # {}
    /\ Len(frames) = 2
    /\ frames[1].sym \in Fns
    /\ frames[2].sym \in Closures

\* The walk ran to the end of the native stack without meeting the boundary.
Exhausted ==
    /\ walkIdx = Len(NativeStack(stack))
    /\ NativeStack(stack)[walkIdx].sym # boundary

\* C6 (as claimed): a non-empty RawCapture ends with the boundary address of
\* the frame active when it was recorded, unless the walk exhausted the stack.
C6_LastIsBoundary ==
    (mode = "finish" /\ frames # <<>>)
        => (frames[Len(frames)].sym = boundary \/ Exhausted)

\* The RawCaptures held anywhere: in the Context, in leaf, in a `previous`.
Held ==
    {trace[i] : i \in 1..Len(trace)} \cup {collector}
    \cup {stack[i].previous[1] : i \in {j \in 1..Len(stack) : stack[j].previous # <<>>}}
HeldCaptures == UNION {{c.backtraces[i] : i \in 1..Len(c.backtraces)} : c \in Held}

\* C6 (amended): no RawCapture holds a boundary address; a non-empty one,
\* unless the walk exhausted the stack, ends with the frame the boundary
\* frame called, the walker having stopped on the boundary right after it.
C6_LastIsBelowBoundary ==
    /\ \A rc \in HeldCaptures : \A i \in 1..Len(rc) :
          rc[i].sym \notin {RootAddr(cl) : cl \in Closures}
    /\ (mode = "finish" /\ frames # <<>> /\ ~Exhausted)
          => /\ \A i \in 1..Len(frames) : frames[i].sym # boundary
             /\ NativeStack(stack)[walkIdx].sym = boundary
             /\ frames[Len(frames)] = NativeStack(stack)[walkIdx - 1]
             /\ frames[Len(frames)].sym \in Closures

\* C6 witness: a walk stopped on the boundary with a non-empty RawCapture.
C6_Witness ==
    /\ mode = "finish"
    /\ frames # <<>>
    /\ ~Exhausted
    /\ NativeStack(stack)[walkIdx].sym = boundary

\* No root and no capture invocation is in progress.
NoScope(stk) == RootDepths(stk) = {} /\ CaptureDepths(stk) = {}

\* This step is user code calling leaf().
LeafCalled == UserTop /\ nLeaf' = nLeaf + 1

\* C7 (as claimed): a leaf() call made while no root and no capture is in
\* progress leaves the accumulator and the active frame as they were, whether
\* it returns at once or after taking the collector.
C7_LeafOutsideScopeDoesNothing ==
    [][/\ (LeafCalled /\ NoScope(stack) /\ mode' = "run")
            => UNCHANGED <<trace, active_frame>>
       /\ (LeafReturns /\ NoScope(stack'))
            => (trace' = Top(stack).preTrace /\ active_frame' = Top(stack).preFrame)]_vars

FairSpec == Spec /\ WF_vars(WalkStep) /\ WF_vars(LeafFinish)

\* C9: a stack walk started by leaf() ends, also when the boundary is never
\* met, and leaf then has appended its RawCapture and reinstalled the
\* accumulator.
C9_WalkTerminates ==
    (mode = "walk") ~> (mode = "run" /\ trace # <<>> /\ trace[1].backtraces # <<>>)

\* C9 witness: a walk that never met the boundary ran to the thread's entry,
\* and leaf has reinstalled the accumulator with the RawCapture it took.
C9_Witness ==
    /\ ~resolves
    /\ mode = "run"
    /\ trace # <<>>
    /\ trace[1].backtraces # <<>>
    /\ LET rc == trace[1].backtraces[Len(trace[1].backtraces)]
       IN rc # <<>> /\ rc[Len(rc)].sym = MainAddr

\* The root-to-node address sequence of node n.
RECURSIVE PathOf(_, _)
PathOf(t, n) ==
    IF n = 0 THEN <<>>
    ELSE IF t[n].parent >= n THEN <<t[n].addr>>
    ELSE Append(PathOf(t, t[n].parent), t[n].addr)

\* The nodes that stand for the root-to-leaf address sequence `pre`.
NodesFor(t, pre) == {n \in 1..Len(t) : PathOf(t, n) = pre}

\* How many leading addresses p and q share.
CommonPrefix(p, q) ==
    Cardinality({k \in 1..Len(p) : k <= Len(q) /\ SubSeq(p, 1, k) = SubSeq(q, 1, k)})

\* The pairs of merged RawCaptures (root-to-leaf) that share exactly their
\* first k addresses and differ at position k + 1.
Diverging ==
    {pq \in {<<Reverse(input[i]), Reverse(input[j])>> : i, j \in 1..fed} :
        /\ CommonPrefix(pq[1], pq[2]) < Len(pq[1])
        /\ CommonPrefix(pq[1], pq[2]) < Len(pq[2])}

\* C10: two merged RawCaptures that share exactly their first k addresses
\* have one shared chain of k nodes, and two distinct children of its k-th
\* node (two top-level entries when k = 0) for their addresses at k + 1.
C10_BranchAtFirstDifference ==
    \A pq \in Diverging :
        LET p == pq[1]
            q == pq[2]
            k == CommonPrefix(p, q)
            pn == NodesFor(tree, SubSeq(p, 1, k + 1))
            qn == NodesFor(tree, SubSeq(q, 1, k + 1))
        IN /\ \A d \in 1..k : Cardinality(NodesFor(tree, SubSeq(p, 1, d))) = 1
           /\ Cardinality(pn) = 1
           /\ Cardinality(qn) = 1
           /\ pn # qn
           /\ \A a \in pn, b \in qn :
                 /\ tree[a].parent = tree[b].parent
                 /\ IF k = 0 THEN tree[a].parent = 0
                    ELSE tree[a].parent \in NodesFor(tree, SubSeq(p, 1, k))

\* C10 witness: two RawCaptures sharing one address and differing at the
\* second are merged into a tree of three nodes.
C10_Witness ==
    /\ fed = 2
    /\ Len(tree) = 3
    /\ \E pq \in Diverging : CommonPrefix(pq[1], pq[2]) = 1

\* This step merges a RawCapture whose address sequence equals that of one
\* merged before it.
MergesDuplicate ==
    /\ fed' = fed + 1
    /\ \E i \in 1..fed : input[i] = input[fed + 1]

\* C11: merging a RawCapture address-identical to one already merged leaves
\* the tree as it was (same nodes, same child order), and its address
\* sequence is the path of exactly one node, its one leaf entry.
C11_DuplicateMergeIsIdempotent ==
    [][MergesDuplicate =>
         /\ tree' = tree
         /\ input[fed + 1] # <<>>
              => Cardinality(NodesFor(tree', Reverse(input[fed + 1]))) = 1]_vars

\* C11 witness: two address-identical RawCaptures of two frames are merged
\* into a tree that is one path of two nodes.
C11_Witness ==
    /\ fed = 2
    /\ input[1] = input[2]
    /\ Len(input[1]) = 2
    /\ Len(tree) = 2
    /\ tree[2].parent = 1

\* The merged RawCaptures whose root-to-leaf address sequence passes through
\* node n, and the earliest of them: the one that introduced n.
Introducers(n) ==
    {i \in 1..fed : LET p == PathOf(tree, n)
                        q == Reverse(input[i])
                    IN Len(p) <= Len(q) /\ SubSeq(q, 1, Len(p)) = p}
FirstSeen(n) == CHOOSE i \in Introducers(n) : \A j \in Introducers(n) : i <= j

\* C12: every node was introduced by some merged RawCapture, and of two
\* children of one node (or two top-level entries) the one introduced by the
\* earlier RawCapture comes first.
C12_ChildrenInFirstSeenOrder ==
    \A a, b \in 1..Len(tree) :
        /\ Introducers(a) # {}
        /\ (a # b /\ tree[a].parent = tree[b].parent /\ Introducers(b) # {}
            /\ FirstSeen(a) < FirstSeen(b)) => a < b

\* C12 witness: under a single top-level entry, one branch was introduced by
\* the first RawCapture and a different one by the second, in that order.
C12_Witness ==
    /\ Len(tree) = 3
    /\ tree[1].parent = 0
    /\ tree[2].parent = 1
    /\ tree[3].parent = 1
    /\ tree[2].addr # tree[3].addr
    /\ FirstSeen(2) = 1
    /\ FirstSeen(3) = 2

\* The children of node n (0: the top-level entries), in order.
RECURSIVE ChildrenFrom(_, _, _)
ChildrenFrom(t, n, k) ==
    IF k > Len(t) THEN <<>>
    ELSE IF t[k].parent = n THEN <<k>> \o ChildrenFrom(t, n, k + 1)
    ELSE ChildrenFrom(t, n, k + 1)
Children(t, n) == ChildrenFrom(t, n, 1)
ChildSyms(t, n) == [i \in 1..Len(Children(t, n)) |-> t[Children(t, n)[i]].addr.sym]

\* The Trace of the run in which foo called bar() and then baz(), each of
\* which called leaf(), has been printed.
FooBarBazPrinted ==
    /\ resolves
    /\ calls = 6
    /\ nLeaf = 2
    /\ Len(input) = 2
    /\ fed = 2
    /\ input[1][1].sym = "bar"
    /\ input[2][1].sym = "baz"

\* C13 (as claimed): the tree of that Trace has a single foo node, with
\* exactly two children, bar then baz, each without children.
C13_SingleFooNode ==
    FooBarBazPrinted =>
        \E n \in 1..Len(tree) :
            /\ \A k \in 1..Len(tree) : tree[k].addr.sym = "foo" <=> k = n
            /\ ChildSyms(tree, n) = <<"bar", "baz">>
            /\ \A c \in 1..Len(tree) : tree[c].parent = n => Children(tree, c) = <<>>

\* C13 (amended): the tree of that Trace has a single top-level entry, the
\* closure, with exactly two children: foo at the call of bar, then foo at
\* the call of baz; the first has the single child bar, the second the single
\* child baz, and bar and baz have no children.
C13_FooNodePerCallSite ==
    FooBarBazPrinted =>
        /\ Len(tree) = 5
        /\ Children(tree, 0) = <<1>>
        /\ tree[1].addr.sym = "f"
        /\ Children(tree, 1) = <<2, 4>>
        /\ tree[2].addr = [sym |-> "foo", site |-> 1]
        /\ tree[4].addr = [sym |-> "foo", site |-> 2]
        /\ ChildSyms(tree, 2) = <<"bar">>
        /\ ChildSyms(tree, 4) = <<"baz">>
        /\ Children(tree, 3) = <<>>
        /\ Children(tree, 5) = <<>>

\* C13 witness: capture(|| foo()) has returned the two RawCaptures of bar's
\* and baz's leaf() calls, and they are merged into a tree.
C13_Witness ==
    /\ FooBarBazPrinted
    /\ returned # <<>>
    /\ returned[1].set = input
    /\ made[1] = 2
    /\ Len(stack) = 1
    /\ tree # <<>>

\* The innermost root invocation in progress (its depth in the stack).
InnermostRoot(stk) == CHOOSE i \in RootDepths(stk) : \A j \in RootDepths(stk) : j <= i

C16_UnwrapNeverFails ==
    [][/\ (CaptureDepths(stack) # {} /\ mode \in {"run", "unwind"}) => trace # <<>>
       /\ (mode = "run" /\ Top(stack).kind = "capture")
            => /\ mode' = "run"
               /\ stack' = Pop(stack)
               /\ returned' = <<[cap |-> Top(stack).id, set |-> trace[1].backtraces]>>]_vars

\* C16 witness: inside capture(f), f caught the unwinding of an inner capture
\* in which leaf() had been called, and the outer capture has then returned
\* a CaptureSet (the one the inner capture left installed).
C16_Witness ==
    /\ mode = "run"
    /\ Len(stack) = 1
    /\ nextId = 2
    /\ lastExit = [kind |-> "capture", how |-> "return"]
    /\ returned # <<>>
    /\ returned[1].cap = 1
    /\ Len(returned[1].set) = 1
    /\ made[1] = 0
    /\ made[2] = 1

\* The ids of the root invocations in progress, innermost first.
RECURSIVE RootIdsFrom(_, _)
RootIdsFrom(stk, i) ==
    IF i = 0 THEN <<>>
    ELSE IF stk[i].kind = "root" THEN <<stk[i].id>> \o RootIdsFrom(stk, i - 1)
    ELSE RootIdsFrom(stk, i - 1)
RootsInProgress(stk) == RootIdsFrom(stk, Len(stk))

\* The Frames met by following parent links from ptr, at most n of them; a
\* pointer to a Frame whose root invocation is no longer on the stack is
\* listed as 0 (the id of no root) and ends the list.
RECURSIVE ParentChain(_, _, _)
ParentChain(stk, ptr, n) ==
    IF ptr = 0 \/ n = 0 THEN <<>>
    ELSE LET live == {i \in RootDepths(stk) : stk[i].id = ptr}
         IN IF live = {} THEN <<0>>
            ELSE <<ptr>> \o ParentChain(stk, stk[CHOOSE i \in live : TRUE].parent, n - 1)

\* C17: in every state the active ActivationFrame and the parent links from
\* it list exactly the root invocations in progress, innermost first: none
\* is active when no root is in progress, and no link is dangling.
C17_ChainIsRootsInProgress ==
    ParentChain(stack, active_frame, Len(stack) + 1) = RootsInProgress(stack)

\* C17 witness: inside root 1 a root has unwound and was caught, and a third
\* root is now in progress: the chain is the third root, then the first.
C17_Witness ==
    /\ mode = "run"
    /\ lastExit = [kind |-> "root", how |-> "unwind"]
    /\ active_frame = 3
    /\ RootsInProgress(stack) = <<3, 1>>

\* C18: a leaf() call made with an accumulator active and no ActivationFrame
\* active happens only after some capture call has been exited by unwinding;
\* in a run where nothing has unwound out of a capture, every leaf() call
\* made with an accumulator active has an ActivationFrame active too.
C18_EmptyCaseOnlyAfterUnwind ==
    [][(LeafCalled /\ trace # <<>> /\ active_frame = 0) => captureUnwound]_vars

\* C18 witness: after a capture was exited by unwinding, leaf() has been
\* called with its accumulator still active and no ActivationFrame active,
\* and is at its end without having walked.
C18_Witness ==
    /\ captureUnwound
    /\ mode = "finish"
    /\ Top(stack).kind = "leaf"
    /\ Top(stack).preFrame = 0
    /\ Top(stack).preTrace # <<>>
    /\ CaptureDepths(stack) = {}

\* C19: no step of a leaf() call changes the active ActivationFrame; a
\* leaf() call made with no accumulator leaves none; and a leaf() call that
\* took the accumulator returns with that same accumulator installed, its
\* earlier entries kept and one entry added, and the active ActivationFrame
\* as it was at the call.
C19_LeafKeepsFrameAndAccumulator ==
    [][/\ (LeafCalled \/ Top(stack).kind = "leaf") => active_frame' = active_frame
       /\ (LeafCalled /\ trace = <<>>) => (trace' = <<>> /\ mode' = "run")
       /\ LeafReturns =>
            /\ active_frame' = Top(stack).preFrame
            /\ Top(stack).preTrace # <<>>
            /\ trace' # <<>>
            /\ trace'[1].cid = Top(stack).preTrace[1].cid
            /\ Len(trace'[1].backtraces) = Len(Top(stack).preTrace[1].backtraces) + 1
            /\ \A i \in 1..Len(Top(stack).preTrace[1].backtraces) :
                  trace'[1].backtraces[i] = Top(stack).preTrace[1].backtraces[i]]_vars

\* C19 witness: inside capture(f), f called root(g) and g called leaf(),
\* which has returned: the inner root's frame is still the active one and
\* the capture's accumulator is installed with the one RawCapture.
C19_Witness ==
    /\ mode = "run"
    /\ nLeaf = 1
    /\ RootsInProgress(stack) = <<2, 1>>
    /\ active_frame = 2
    /\ Top(stack).kind = "fn"
    /\ Top(stack).site = 1
    /\ trace # <<>>
    /\ trace[1].cid = 1
    /\ Len(trace[1].backtraces) = 1
    /\ trace[1].backtraces[1] # <<>>

====
